---- MODULE Spec2Model ----
(***************************************************************************)
(* Model of components/crypto-service/src/store.rs: the combined store     *)
(* over three littlefs2 filesystems (internal, external, volatile).        *)
(*                                                                         *)
(*  - store!::claim / store!::mount : the singleton lifecycle              *)
(*  - read / write / store / delete : location-dispatch operations         *)
(*  - create_directories            : ancestor directory creation          *)
(*  - SerializedKey::try_from       : bounded key encoding                 *)
(*                                                                         *)
(* The littlefs2 filesystem itself is an external collaborator; it is      *)
(* modelled as a deterministic hierarchical filesystem (Fs* operators)     *)
(* whose failures come from the logical state of the tree and from the     *)
(* file-size limit, never from a failing medium once it is mounted.        *)
(***************************************************************************)
EXTENDS Integers, Sequences, FiniteSets, TLC

\* ------------------------------------------------------------------ bounds

\* longest byte sequence handed to write/store
MaxLen == 2
\* the backend's file-size limit (a write of more bytes fails)
FileMax == 1
\* calls of claim() in SpecClaim
MaxClaims == 6
\* capacity of Bytes<MAX_SERIALIZED_KEY_LENGTH>; the value is set in
\* crate::config, the model takes a small one
MAX_SERIALIZED_KEY_LENGTH == 2

\* ------------------------------------------------------------------ values

\* StorageLocation
Loc == {"Internal", "External", "Volatile"}

\* execution contexts that may call claim(): the main loop and an interrupt
Ctx == {"main", "irq"}

\* paths are byte strings; a byte is modelled as a one-character string
PA == <<"a">>
PAB == <<"a", "/", "b">>
PABC == <<"a", "/", "b", "/", "c">>
Paths == {PA, PAB, PABC}

\* Ramp(n) is the byte sequence 1, 2, ..., n
Ramp(n) == [i \in 1..n |-> i]

\* the byte sequences handed to write/store: one per length 0..MaxLen
Contents == {Ramp(n) : n \in 0..MaxLen}

\* capacities N of the Vec<u8, N> a read returns
ReadCaps == 0..FileMax

Take(s, n) == IF Len(s) <= n THEN s ELSE SubSeq(s, 1, n)

\* ---------------------------------------------------- the backend (littlefs2)

\* Components(p): the names of p, split at '/' (empty names are skipped)
RECURSIVE Comp(_, _, _)
Comp(p, i, cur) ==
    IF i > Len(p)
    THEN IF cur = <<>> THEN <<>> ELSE <<cur>>
    ELSE IF p[i] = "/"
         THEN (IF cur = <<>> THEN <<>> ELSE <<cur>>) \o Comp(p, i + 1, <<>>)
         ELSE Comp(p, i + 1, Append(cur, p[i]))

\* every prefix of a path of the model, and its components, computed once
AllPrefixes == UNION {{SubSeq(p, 1, k) : k \in 0..Len(p)} : p \in Paths}

ComponentsOf == [p \in AllPrefixes |-> Comp(p, 1, <<>>)]

Components(p) == IF p \in AllPrefixes THEN ComponentsOf[p] ELSE Comp(p, 1, <<>>)

\* the nodes a tree may hold: the paths and all their ancestors
Prefixes(n) == {SubSeq(n, 1, k) : k \in 1..Len(n)}

Nodes == UNION {Prefixes(Components(p)) : p \in Paths}

NoEntry == [kind |-> "none", data |-> <<>>]
DirEntry == [kind |-> "dir", data |-> <<>>]
FileEntry(d) == [kind |-> "file", data |-> d]

\* a freshly formatted filesystem
EmptyFs == [n \in Nodes |-> NoEntry]

\* the entry at node n of tree f; the root is a directory, a name outside
\* the modelled nodes is absent
EntryAt(f, n) ==
    IF n = <<>> THEN DirEntry
    ELSE IF n \in Nodes THEN f[n] ELSE NoEntry

\* the error of walking to the parent of n: "" when every proper ancestor is
\* a directory
WalkErr(f, n) ==
    LET bad == {k \in 1..(Len(n) - 1) : EntryAt(f, SubSeq(n, 1, k)).kind # "dir"}
        first == CHOOSE k \in bad : \A j \in bad : k <= j
    IN IF bad = {} THEN ""
       ELSE IF EntryAt(f, SubSeq(n, 1, first)).kind = "none"
            THEN "NoSuchEntry" ELSE "PathNotDir"

HasChild(f, n) ==
    \E m \in Nodes : Len(m) = Len(n) + 1 /\ SubSeq(m, 1, Len(n)) = n
                     /\ f[m].kind # "none"

FsOk(f, d) == [err |-> "", fs |-> f, data |-> d]
FsErr(f, e) == [err |-> e, fs |-> f, data |-> <<>>]

\* Filesystem::create_dir
FsCreateDir(f, p) ==
    LET n == Components(p) IN
    IF n = <<>> THEN FsErr(f, "EntryAlreadyExisted")
    ELSE IF WalkErr(f, n) # "" THEN FsErr(f, WalkErr(f, n))
    ELSE IF EntryAt(f, n).kind # "none" THEN FsErr(f, "EntryAlreadyExisted")
    ELSE IF n \notin Nodes THEN FsErr(f, "NoSpace")
    ELSE FsOk([f EXCEPT ![n] = DirEntry], <<>>)

\* Filesystem::write: create or truncate the file, then write all bytes.
\* A write over the size limit fails; torn tells whether the file was
\* already created or truncated when it failed.
FsWrite(f, p, d, torn) ==
    LET n == Components(p) IN
    IF n = <<>> THEN FsErr(f, "PathIsDir")
    ELSE IF WalkErr(f, n) # "" THEN FsErr(f, WalkErr(f, n))
    ELSE IF EntryAt(f, n).kind = "dir" THEN FsErr(f, "PathIsDir")
    ELSE IF n \notin Nodes THEN FsErr(f, "NoSpace")
    ELSE IF Len(d) > FileMax
         THEN FsErr(IF torn THEN [f EXCEPT ![n] = FileEntry(<<>>)] ELSE f,
                    "FileTooBig")
    ELSE FsOk([f EXCEPT ![n] = FileEntry(d)], <<>>)

\* Filesystem::read::<N>: at most N bytes of the file
FsRead(f, p, cap) ==
    LET n == Components(p) IN
    IF n = <<>> THEN FsErr(f, "PathIsDir")
    ELSE IF WalkErr(f, n) # "" THEN FsErr(f, WalkErr(f, n))
    ELSE IF EntryAt(f, n).kind = "none" THEN FsErr(f, "NoSuchEntry")
    ELSE IF EntryAt(f, n).kind = "dir" THEN FsErr(f, "PathIsDir")
    ELSE FsOk(f, Take(EntryAt(f, n).data, cap))

\* Filesystem::remove: a file, or an empty directory
FsRemove(f, p) ==
    LET n == Components(p) IN
    IF n = <<>> THEN FsErr(f, "Invalid")
    ELSE IF WalkErr(f, n) # "" THEN FsErr(f, WalkErr(f, n))
    ELSE IF EntryAt(f, n).kind = "none" THEN FsErr(f, "NoSuchEntry")
    ELSE IF EntryAt(f, n).kind = "dir" /\ HasChild(f, n)
         THEN FsErr(f, "DirNotEmpty")
    ELSE FsOk([f EXCEPT ![n] = NoEntry], <<>>)


\* ------------------------------------------------------------ key encoding

\* KeyKind (crate::types): three kinds stand for the enum
KeyKinds == {"Ed25519", "P256", "SharedSecret32"}

\* the raw key bytes handed to try_from: every sequence over three byte
\* values up to one byte more than the capacity
KeyBytes == UNION {[1..n -> 0..2] : n \in 0..(MAX_SERIALIZED_KEY_LENGTH + 1)}

\* Bytes::<MAX_SERIALIZED_KEY_LENGTH>::try_from_slice: a copy of the slice,
\* an error when it does not fit the capacity
BytesTryFromSlice(slice) ==
    IF Len(slice) > MAX_SERIALIZED_KEY_LENGTH
    THEN [ok |-> FALSE, value |-> <<>>]
    ELSE [ok |-> TRUE, value |-> [i \in 1..Len(slice) |-> slice[i]]]

\* a faulty try_from that cuts an overlong slice to the capacity instead of
\* failing
try_from_truncating(kind, bytes) ==
    [ok |-> TRUE, err |-> "", kind |-> kind,
     value |-> Take(bytes, MAX_SERIALIZED_KEY_LENGTH)]

\* SerializedKey::try_from((kind, bytes))
try_from(kind, bytes) ==
    LET v == BytesTryFromSlice(bytes) IN
    IF v.ok
    THEN [ok |-> TRUE, err |-> "", kind |-> kind, value |-> v.value]
    ELSE [ok |-> FALSE, err |-> "InternalError", kind |-> "", value |-> <<>>]

\* no try_from call was made
NoKey == [called |-> FALSE, kind |-> "", bytes |-> <<>>,
          res |-> [ok |-> TRUE, err |-> "", kind |-> "", value |-> <<>>]]

\* ------------------------------------------------------------------- state

VARIABLES
    CLAIMED,    \* static CLAIMED: AtomicBool of claim()
    pc,         \* per context: where its claim() call stands
    nClaims,    \* calls of claim() begun
    claimLog,   \* what the calls of claim() returned, in order of return
    slot,       \* per accessor: the medium its static Fs slot is bound to
    mountRes,   \* what the last call of mount() returned
    halted,     \* "run", or how the process ended
    fs,         \* per accessor: the tree of the filesystem behind it
    call,       \* the store() call in progress, if any
    ret,        \* what the last path operation returned; none while one runs
    key         \* the last SerializedKey::try_from call: its input and result

vars == <<CLAIMED, pc, nClaims, claimLog, slot, mountRes, halted, fs, call, ret, key>>

\* the static slots, named by their accessors
Handles == {"ifs", "efs", "vfs"}

\* mount() handles the backends in this order
MountOrder == <<"ifs", "efs", "vfs">>

\* the medium the first call of mount() is given for each backend
MediumOf == [ifs |-> "ifs_storage", efs |-> "efs_storage", vfs |-> "vfs_storage"]

\* the media a later call of mount() is given
LaterMediumOf ==
    [ifs |-> "ifs_storage_2", efs |-> "efs_storage_2", vfs |-> "vfs_storage_2"]

\* no store() call is in progress
NoCall == [op |-> "none", loc |-> "", path |-> <<>>, data |-> <<>>, calls |-> <<>>]

\* no path operation has returned since the last mount(), or a store() is
\* in progress
NoRet == [op |-> "none", ok |-> TRUE, err |-> "", out |-> <<>>]

Init ==
    /\ CLAIMED = FALSE
    /\ pc = [c \in Ctx |-> "idle"]
    /\ nClaims = 0
    /\ claimLog = <<>>
    /\ slot = [h \in Handles |-> ""]
    /\ mountRes = "none"
    /\ halted = "run"
    /\ fs = [h \in Handles |-> EmptyFs]
    /\ call = NoCall
    /\ ret = NoRet
    /\ key = NoKey

\* ------------------------------------------------------------------- claim

\* a faulty compare-exchange that stores new whatever the value was
CompareExchangeBlind(value, current, new, spurious) ==
    [ok |-> TRUE, value |-> new]

\* AtomicBool::compare_exchange_weak(current, new): one atomic step that may
\* fail spuriously although the value is the expected one
CompareExchangeWeak(value, current, new, spurious) ==
    IF value = current /\ ~spurious
    THEN [ok |-> TRUE, value |-> new]
    ELSE [ok |-> FALSE, value |-> value]

\* an interrupt handler runs to completion before the main loop goes on
CanRun(c) == c = "irq" \/ pc["irq"] = "idle"

\* claim(), the compare-exchange on CLAIMED
ClaimCas(c) ==
    /\ halted = "run"
    /\ CanRun(c)
    /\ pc[c] = "idle"
    /\ nClaims < MaxClaims
    /\ \E spurious \in BOOLEAN :
         LET r == CompareExchangeWeak(CLAIMED, FALSE, TRUE, spurious) IN
         /\ CLAIMED' = r.value
         /\ pc' = [pc EXCEPT ![c] = IF r.ok THEN "cas_ok" ELSE "cas_err"]
    /\ nClaims' = nClaims + 1
    /\ UNCHANGED <<claimLog, slot, mountRes, halted, fs, call, ret, key>>

\* what claim() returns after its compare-exchange
ClaimResult(casOk) == IF casOk THEN "Some" ELSE "None"

\* claim(), the return
ClaimRet(c) ==
    /\ halted = "run"
    /\ CanRun(c)
    /\ pc[c] \in {"cas_ok", "cas_err"}
    /\ claimLog' = Append(claimLog, ClaimResult(pc[c] = "cas_ok"))
    /\ pc' = [pc EXCEPT ![c] = "idle"]
    /\ UNCHANGED <<CLAIMED, nClaims, slot, mountRes, halted, fs, call, ret, key>>

\* a capability exists: some call of claim() returned one
HasCapability == \E i \in 1..Len(claimLog) : claimLog[i] = "Some"

\* the main loop is between calls
MainIdle ==
    /\ halted = "run"
    /\ pc = [c \in Ctx |-> "idle"]
    /\ call.op = "none"

\* ------------------------------------------------------------------- mount

\* how a call of mount() can go: whether it formats, the first backend (in
\* mount order) whose Filesystem::format fails and the first whose
\* Filesystem::mount fails; 4 stands for none
MountCases ==
    {[format |-> TRUE, fmtBad |-> k, mntBad |-> 4] : k \in 1..3}
    \cup {[format |-> f, fmtBad |-> 4, mntBad |-> k] : f \in BOOLEAN, k \in 1..4}

\* a faulty mount() that binds all three backends or, when a
\* Filesystem::mount fails, none
MountedAllOrNone(k) == IF k = 4 THEN {MountOrder[j] : j \in 1..3} ELSE {}

\* the backends mount() binds before the first failing Filesystem::mount
MountedBefore(k) == {MountOrder[j] : j \in 1..(k - 1)}

\* one call mount() makes: Filesystem::format or Filesystem::mount on the
\* medium of backend h, or the write of the slot of h ("record")
MountCall(fn, h, err) == [fn |-> fn, h |-> h, err |-> err]

\* the Filesystem::format calls of mount(): none without the format flag,
\* else one per backend in order, up to and including the first that fails
FormatCalls(m) ==
    IF m.format
    THEN [j \in 1..(IF m.fmtBad < 4 THEN m.fmtBad ELSE 3) |->
            MountCall("format", MountOrder[j],
                      IF j = m.fmtBad THEN "Err" ELSE "")]
    ELSE <<>>

\* the calls of mount() after the formatting: per backend in order a
\* Filesystem::mount and, when it succeeded, the write of the slot; the
\* first failing Filesystem::mount is the last call
BindCalls(m) ==
    [i \in 1..(2 * (m.mntBad - 1) + (IF m.mntBad < 4 THEN 1 ELSE 0)) |->
       LET j == (i + 1) \div 2 IN
       IF i % 2 = 1
       THEN MountCall("mount", MountOrder[j],
                      IF j = m.mntBad THEN "Err" ELSE "")
       ELSE MountCall("record", MountOrder[j], "")]

\* a faulty mount() that returns an error when Filesystem::format fails
mount_format_error(F, S, media, m) ==
    [slot |-> [h \in Handles |->
                 IF m.fmtBad = 4 /\ h \in MountedBefore(m.mntBad) THEN media[h]
                 ELSE S[h]],
     fs |-> [h \in Handles |->
               IF m.fmtBad = 4 /\ h \in MountedBefore(m.mntBad) THEN EmptyFs
               ELSE F[h]],
     res |-> IF m.fmtBad = 4 /\ m.mntBad = 4 THEN "Ok" ELSE "Err",
     panic |-> FALSE,
     calls |-> IF m.fmtBad < 4 THEN FormatCalls(m)
               ELSE FormatCalls(m) \o BindCalls(m)]

\* a faulty mount() that records the filesystem of the volatile medium in
\* the external slot and the other way round
mount_crossed(F, S, media, m) ==
    LET crossed == [ifs |-> media["ifs"], efs |-> media["vfs"],
                    vfs |-> media["efs"]]
    IN IF m.format /\ m.fmtBad < 4
       THEN [slot |-> S, fs |-> F, res |-> "none", panic |-> TRUE,
             calls |-> FormatCalls(m)]
       ELSE [slot |-> [h \in Handles |->
                         IF h \in MountedBefore(m.mntBad) THEN crossed[h]
                         ELSE S[h]],
             fs |-> [h \in Handles |->
                       IF h \in MountedBefore(m.mntBad) THEN EmptyFs
                       ELSE F[h]],
             res |-> IF m.mntBad = 4 THEN "Ok" ELSE "Err",
             panic |-> FALSE,
             calls |-> FormatCalls(m) \o BindCalls(m)]

\* mount() on slots S and trees F with the media given: with format, all
\* three media are formatted first (a failure panics in expect); then each
\* backend in turn is mounted and its slot recorded, the first mount error
\* being returned by `?`
mount(F, S, media, m) ==
    IF m.format /\ m.fmtBad < 4
    THEN [slot |-> S, fs |-> F, res |-> "none", panic |-> TRUE,
          calls |-> FormatCalls(m)]
    ELSE [slot |-> [h \in Handles |->
                      IF h \in MountedBefore(m.mntBad) THEN media[h]
                      ELSE S[h]],
          fs |-> [h \in Handles |->
                    IF h \in MountedBefore(m.mntBad) THEN EmptyFs ELSE F[h]],
          res |-> IF m.mntBad = 4 THEN "Ok" ELSE "Err",
          panic |-> FALSE,
          calls |-> FormatCalls(m) \o BindCalls(m)]

\* the media a call of mount() is given: the first call takes the three
\* &'static mut media for good, a later call comes with other ones
Supplied == IF mountRes = "none" THEN MediumOf ELSE LaterMediumOf

\* mount()
Mount(m) ==
    /\ MainIdle
    /\ HasCapability
    /\ LET e == mount(fs, slot, Supplied, m) IN
       /\ halted' = IF e.panic THEN "panic" ELSE halted
       /\ slot' = e.slot
       /\ fs' = e.fs
       /\ mountRes' = IF e.panic THEN mountRes ELSE e.res
    /\ ret' = NoRet
    /\ UNCHANGED <<CLAIMED, pc, nClaims, claimLog, call, key>>

\* --------------------------------------------------------- path operations

\* the match on location of read/write/store/delete: Internal selects
\* store.ifs(), External store.efs(), Volatile store.vfs()
HandleOf(location) ==
    CASE location = "Internal" -> "ifs"
      [] location = "External" -> "efs"
      [] location = "Volatile" -> "vfs"

\* one call of the filesystem behind handle h, as the operations log it
Call(fn, h, path, err) == [fn |-> fn, h |-> h, path |-> path, err |-> err]

\* what an operation did: the trees after it, its result, its backend calls
Effect(F, ok, err, out, calls, panic) ==
    [fs |-> F, ok |-> ok, err |-> err, out |-> out, calls |-> calls,
     panic |-> panic]

\* a faulty read whose External arm reads the internal filesystem
\* a faulty read that opens the file for creation: a read of a path with no
\* entry leaves an empty file behind
read_creating(F, location, path, cap) ==
    LET h == HandleOf(location)
        r == FsRead(F[h], path, cap)
        w == FsWrite(F[h], path, <<>>, FALSE)
    IN Effect([F EXCEPT ![h] = IF r.err = "NoSuchEntry" THEN w.fs ELSE r.fs],
              r.err = "",
              IF r.err = "" THEN "" ELSE "FilesystemReadFailure",
              r.data, <<Call("read", h, path, r.err)>>, FALSE)

read_external_from_ifs(F, location, path, cap) ==
    LET h == IF location = "External" THEN "ifs" ELSE HandleOf(location)
        r == FsRead(F[h], path, cap)
    IN Effect([F EXCEPT ![h] = r.fs], r.err = "",
              IF r.err = "" THEN "" ELSE "FilesystemReadFailure",
              r.data, <<Call("read", h, path, r.err)>>, FALSE)

\* read(store, location, path): any backend error becomes
\* FilesystemReadFailure
read(F, location, path, cap) ==
    LET h == HandleOf(location)
        r == FsRead(F[h], path, cap)
    IN Effect([F EXCEPT ![h] = r.fs], r.err = "",
              IF r.err = "" THEN "" ELSE "FilesystemReadFailure",
              r.data, <<Call("read", h, path, r.err)>>, FALSE)

\* a faulty write that reports a backend failure as FilesystemReadFailure
write_read_failure(F, location, path, contents, torn) ==
    LET h == HandleOf(location)
        r == FsWrite(F[h], path, contents, torn)
    IN Effect([F EXCEPT ![h] = r.fs], r.err = "",
              IF r.err = "" THEN "" ELSE "FilesystemReadFailure",
              <<>>, <<Call("write", h, path, r.err)>>, FALSE)

\* a faulty write whose Volatile arm writes the external filesystem
write_volatile_to_efs(F, location, path, contents, torn) ==
    LET h == IF location = "Volatile" THEN "efs" ELSE HandleOf(location)
        r == FsWrite(F[h], path, contents, torn)
    IN Effect([F EXCEPT ![h] = r.fs], r.err = "",
              IF r.err = "" THEN "" ELSE "FilesystemWriteFailure",
              <<>>, <<Call("write", h, path, r.err)>>, FALSE)

\* write(store, location, path, contents): any backend error becomes
\* FilesystemWriteFailure
write(F, location, path, contents, torn) ==
    LET h == HandleOf(location)
        r == FsWrite(F[h], path, contents, torn)
    IN Effect([F EXCEPT ![h] = r.fs], r.err = "",
              IF r.err = "" THEN "" ELSE "FilesystemWriteFailure",
              <<>>, <<Call("write", h, path, r.err)>>, FALSE)

\* a faulty loop that walks the bytes of path from the last to the first,
\* so that the deepest ancestor is created first (i counts the bytes done)
RECURSIVE CreateDirsDeepestFirst(_, _, _, _, _)
CreateDirsDeepestFirst(F, h, path, i, calls) ==
    LET k == Len(path) + 1 - i IN
    IF i > Len(path) THEN Effect(F, TRUE, "", <<>>, calls, FALSE)
    ELSE IF path[k] = "/"
    THEN LET dir == SubSeq(path, 1, k - 1)
             r == FsCreateDir(F[h], dir)
             done == Append(calls, Call("create_dir", h, dir, r.err))
         IN IF r.err \in {"", "EntryAlreadyExisted"}
            THEN CreateDirsDeepestFirst([F EXCEPT ![h] = r.fs], h, path,
                                        i + 1, done)
            ELSE Effect(F, FALSE, "panic", <<>>, done, TRUE)
    ELSE CreateDirsDeepestFirst(F, h, path, i + 1, calls)

\* a faulty loop that treats "already existed" like any other error
RECURSIVE CreateDirsStrict(_, _, _, _, _)
CreateDirsStrict(F, h, path, i, calls) ==
    IF i > Len(path) THEN Effect(F, TRUE, "", <<>>, calls, FALSE)
    ELSE IF path[i] = "/"
    THEN LET dir == SubSeq(path, 1, i - 1)
             r == FsCreateDir(F[h], dir)
             done == Append(calls, Call("create_dir", h, dir, r.err))
         IN IF r.err = ""
            THEN CreateDirsStrict([F EXCEPT ![h] = r.fs], h, path, i + 1, done)
            ELSE Effect(F, FALSE, "panic", <<>>, done, TRUE)
    ELSE CreateDirsStrict(F, h, path, i + 1, calls)

\* a faulty loop that returns FilesystemWriteFailure when create_dir fails
\* with anything but "already existed"
RECURSIVE CreateDirsReturning(_, _, _, _, _)
CreateDirsReturning(F, h, path, i, calls) ==
    IF i > Len(path) THEN Effect(F, TRUE, "", <<>>, calls, FALSE)
    ELSE IF path[i] = "/"
    THEN LET dir == SubSeq(path, 1, i - 1)
             r == FsCreateDir(F[h], dir)
             done == Append(calls, Call("create_dir", h, dir, r.err))
         IN IF r.err \in {"", "EntryAlreadyExisted"}
            THEN CreateDirsReturning([F EXCEPT ![h] = r.fs], h, path, i + 1,
                                     done)
            ELSE Effect(F, FALSE, "FilesystemWriteFailure", <<>>, done, FALSE)
    ELSE CreateDirsReturning(F, h, path, i + 1, calls)

\* a faulty loop that puts a directory in the place of whatever entry
\* "already existed"
RECURSIVE CreateDirsReplacing(_, _, _, _, _)
CreateDirsReplacing(F, h, path, i, calls) ==
    IF i > Len(path) THEN Effect(F, TRUE, "", <<>>, calls, FALSE)
    ELSE IF path[i] = "/"
    THEN LET dir == SubSeq(path, 1, i - 1)
             r == FsCreateDir(F[h], dir)
             done == Append(calls, Call("create_dir", h, dir, r.err))
         IN IF r.err = ""
            THEN CreateDirsReplacing([F EXCEPT ![h] = r.fs], h, path, i + 1,
                                     done)
            ELSE IF r.err = "EntryAlreadyExisted"
            THEN CreateDirsReplacing(
                   [F EXCEPT ![h][Components(dir)] = DirEntry],
                   h, path, i + 1, done)
            ELSE Effect(F, FALSE, "panic", <<>>, done, TRUE)
    ELSE CreateDirsReplacing(F, h, path, i + 1, calls)

\* the loop of create_directories from byte i on (bytes are numbered from 1
\* here): at each '/' a create_dir of the bytes before it; "already existed"
\* and Ok go on, any other result panics
RECURSIVE CreateDirsFrom(_, _, _, _, _)
CreateDirsFrom(F, h, path, i, calls) ==
    IF i > Len(path) THEN Effect(F, TRUE, "", <<>>, calls, FALSE)
    ELSE IF path[i] = "/"
    THEN LET dir == SubSeq(path, 1, i - 1)
             r == FsCreateDir(F[h], dir)
             done == Append(calls, Call("create_dir", h, dir, r.err))
         IN IF r.err \in {"", "EntryAlreadyExisted"}
            THEN CreateDirsFrom([F EXCEPT ![h] = r.fs], h, path, i + 1, done)
            ELSE Effect(F, FALSE, "panic", <<>>, done, TRUE)
    ELSE CreateDirsFrom(F, h, path, i + 1, calls)

\* a faulty create_directories that also creates the full path as a
\* directory
create_directories_and_path(F, h, path) ==
    CreateDirsFrom(F, h, Append(path, "/"), 1, <<>>)

\* create_directories(fs, path)
create_directories(F, h, path) == CreateDirsFrom(F, h, path, 1, <<>>)

\* a faulty store() that skips create_directories
store_without_directories(F, location, path) ==
    Effect(F, TRUE, "", <<>>, <<>>, FALSE)

\* store(), its first statement: create_directories on the selected backend
store_directories(F, location, path) ==
    create_directories(F, HandleOf(location), path)

\* a faulty delete that tests outcome.is_err()
delete_inverted(F, location, path) ==
    LET h == HandleOf(location)
        r == FsRemove(F[h], path)
    IN Effect([F EXCEPT ![h] = r.fs], r.err # "", "", <<>>,
              <<Call("remove", h, path, r.err)>>, FALSE)

\* a faulty delete that returns true whatever the removal did
delete_always_true(F, location, path) ==
    LET h == HandleOf(location)
        r == FsRemove(F[h], path)
    IN Effect([F EXCEPT ![h] = r.fs], TRUE, "", <<>>,
              <<Call("remove", h, path, r.err)>>, FALSE)

\* delete(store, location, path): true iff the removal succeeded
delete(F, location, path) ==
    LET h == HandleOf(location)
        r == FsRemove(F[h], path)
    IN Effect([F EXCEPT ![h] = r.fs], r.err = "", "", <<>>,
              <<Call("remove", h, path, r.err)>>, FALSE)

\* the accessor for location refers to a recorded slot
Recorded(location) == slot[HandleOf(location)] # ""

\* the main loop may start a path operation on location
Ready(location) == MainIdle /\ HasCapability /\ Recorded(location)

\* what a completed operation returned
Ret(op, e) == [op |-> op, ok |-> e.ok, err |-> e.err, out |-> e.out]

\* how a failing write may leave the file: torn only when the bytes exceed
\* the size limit
TornCases(contents) == IF Len(contents) > FileMax THEN BOOLEAN ELSE {FALSE}

Read(location, path, cap) ==
    /\ Ready(location)
    /\ LET e == read(fs, location, path, cap) IN
       /\ fs' = e.fs
       /\ ret' = Ret("read", e)
    /\ UNCHANGED <<CLAIMED, pc, nClaims, claimLog, slot, mountRes, halted, call, key>>

Write(location, path, contents) ==
    /\ Ready(location)
    /\ \E torn \in TornCases(contents) :
         LET e == write(fs, location, path, contents, torn) IN
         /\ fs' = e.fs
         /\ ret' = Ret("write", e)
    /\ UNCHANGED <<CLAIMED, pc, nClaims, claimLog, slot, mountRes, halted, call, key>>

\* store(), up to the return of create_directories (or its panic)
StoreDirs(location, path, contents) ==
    /\ Ready(location)
    /\ LET e == store_directories(fs, location, path) IN
       /\ fs' = e.fs
       /\ halted' = IF e.panic THEN "panic" ELSE halted
       /\ IF e.ok \/ e.panic
          THEN /\ call' = [op |-> "store", loc |-> location, path |-> path,
                           data |-> contents, calls |-> e.calls]
               /\ ret' = NoRet
          ELSE \* the `?` of store(): an Err of create_directories is returned
               /\ call' = NoCall
               /\ ret' = Ret("store", e)
    /\ UNCHANGED <<CLAIMED, pc, nClaims, claimLog, slot, mountRes, key>>

\* store(), its write and return
StoreWrite ==
    /\ halted = "run"
    /\ call.op = "store"
    /\ \E torn \in TornCases(call.data) :
         LET e == write(fs, call.loc, call.path, call.data, torn) IN
         /\ fs' = e.fs
         /\ ret' = Ret("store", e)
    /\ call' = NoCall
    /\ UNCHANGED <<CLAIMED, pc, nClaims, claimLog, slot, mountRes, halted, key>>

Delete(location, path) ==
    /\ Ready(location)
    /\ LET e == delete(fs, location, path) IN
       /\ fs' = e.fs
       /\ ret' = Ret("delete", e)
    /\ UNCHANGED <<CLAIMED, pc, nClaims, claimLog, slot, mountRes, halted, call, key>>

\* a faulty accessor that is reached only once mount() has returned Ok
AccessAfterMount(location) ==
    /\ MainIdle
    /\ HasCapability
    /\ mountRes = "Ok"
    /\ ~Recorded(location)
    /\ halted' = "ub"
    /\ UNCHANGED <<CLAIMED, pc, nClaims, claimLog, slot, mountRes, fs, call, ret, key>>

\* a path operation on a location whose slot mount() never recorded: the
\* accessor dereferences an uninitialised static
AccessUnrecorded(location) ==
    /\ MainIdle
    /\ HasCapability
    /\ ~Recorded(location)
    /\ halted' = "ub"
    /\ UNCHANGED <<CLAIMED, pc, nClaims, claimLog, slot, mountRes, fs, call, ret, key>>

\* ---------------------------------------------------------- specifications

\* the firmware: the main loop claims the store once at start-up, mounts
\* it, and then issues path operations
BootClaim == nClaims = 0 /\ ClaimCas("main")

\* the one call of mount() a boot sequence makes
FirstMount(m) == mountRes = "none" /\ Mount(m)

Next ==
    \/ BootClaim
    \/ ClaimRet("main")
    \/ \E m \in MountCases : FirstMount(m)
    \/ \E l \in Loc, p \in Paths, cap \in ReadCaps : Read(l, p, cap)
    \/ \E l \in Loc, p \in Paths, d \in Contents : Write(l, p, d)
    \/ \E l \in Loc, p \in Paths, d \in Contents : StoreDirs(l, p, d)
    \/ StoreWrite
    \/ \E l \in Loc, p \in Paths : Delete(l, p)
    \/ \E l \in Loc : AccessUnrecorded(l)

Spec == Init /\ [][Next]_vars

\* the lifecycle with mount() called any number of times, each later call
\* with other media, and writes and reads that tell the mounted trees apart
NextMount ==
    \/ BootClaim
    \/ ClaimRet("main")
    \/ \E m \in MountCases : Mount(m)
    \/ \E l \in Loc, d \in Contents : Write(l, PA, d)
    \/ \E l \in Loc, cap \in ReadCaps : Read(l, PA, cap)
    \/ \E l \in Loc : AccessUnrecorded(l)

SpecMount == Init /\ [][NextMount]_vars

\* claim() alone, called from the main loop and from an interrupt
NextClaim == \E c \in Ctx : ClaimCas(c) \/ ClaimRet(c)

SpecClaim == Init /\ [][NextClaim]_vars


\* SerializedKey::try_from alone, on every input
TryFrom(kind, bytes) ==
    /\ key' = [called |-> TRUE, kind |-> kind, bytes |-> bytes,
               res |-> try_from(kind, bytes)]
    /\ UNCHANGED <<CLAIMED, pc, nClaims, claimLog, slot, mountRes, halted, fs, call, ret>>

NextKey == \E kind \in KeyKinds, bytes \in KeyBytes : TryFrom(kind, bytes)

SpecKey == Init /\ [][NextKey]_vars

\* ------------------------------------------------------------------ claims

\* the positions of claimLog at which a capability was returned
Somes == {i \in 1..Len(claimLog) : claimLog[i] = "Some"}

\* C1: in any interleaving of claim() calls from the main loop and from an
\* interrupt, at most one call gets a capability (counting a call that has
\* won the compare-exchange and not returned yet), every call returning
\* after a capability was returned gets nothing, and CLAIMED stays set
\* once a call has won.
C1_AtMostOneClaim ==
    /\ Cardinality(Somes) + Cardinality({c \in Ctx : pc[c] = "cas_ok"}) <= 1
    /\ \A i \in Somes : \A j \in (i + 1)..Len(claimLog) : claimLog[j] = "None"
    /\ (Somes # {} \/ \E c \in Ctx : pc[c] = "cas_ok") => CLAIMED

\* a capability was returned and a later call, made from the interrupt while
\* the main loop was inside claim(), returned nothing
C1_Witness ==
    /\ \E i \in Somes : \E j \in (i + 1)..Len(claimLog) : claimLog[j] = "None"
    /\ pc["main"] = "cas_err" /\ pc["irq"] = "idle"

\* C2 (as claimed): a call of claim() returns nothing only if the store is
\* already claimed: whenever some call has returned nothing, CLAIMED is set.
C2_NoneOnlyIfClaimed ==
    (\E i \in 1..Len(claimLog) : claimLog[i] = "None") => CLAIMED

\* the backend each location tag stands for
BackendOf == [Internal |-> "ifs", External |-> "efs", Volatile |-> "vfs"]

\* the ancestors of path, shallowest first: for each '/', the bytes before it
AncestorsOf(path) ==
    LET S == {i \in 1..Len(path) : path[i] = "/"}
        at == [k \in 1..Cardinality(S) |->
                 CHOOSE i \in S : Cardinality({j \in S : j < i}) = k - 1]
    IN [k \in 1..Cardinality(S) |-> SubSeq(path, 1, at[k] - 1)]

\* an entry exists at path p of tree f
Exists(f, p) ==
    WalkErr(f, Components(p)) = "" /\ EntryAt(f, Components(p)).kind # "none"

\* a read of (l, p) from trees F with capacity cap fails with
\* FilesystemReadFailure
ReadFails(F, l, p, cap) ==
    ~read(F, l, p, cap).ok /\ read(F, l, p, cap).err = "FilesystemReadFailure"

\* C3 (as claimed): a successful write(loc, p, bytes) directly followed by
\* read(loc, p) returns exactly bytes, whatever the capacity N of the read.
C3_RoundTripAnyCapacity ==
    [][(ret'.op = "write" /\ ret'.ok) =>
       \A l \in Loc, p \in Paths, d \in Contents :
         (Write(l, p, d) /\ ret'.ok) =>
           \A cap \in ReadCaps :
             read(fs', l, p, cap).ok /\ read(fs', l, p, cap).out = d]_vars

\* C3 (amended): a successful write(loc, p, bytes) directly followed by
\* read::<N>(loc, p) returns exactly bytes, provided bytes.len() <= N.
C3_RoundTrip ==
    [][(ret'.op = "write" /\ ret'.ok) =>
       \A l \in Loc, p \in Paths, d \in Contents :
         (Write(l, p, d) /\ ret'.ok) =>
           \A cap \in ReadCaps :
             Len(d) <= cap =>
               read(fs', l, p, cap).ok /\ read(fs', l, p, cap).out = d]_vars

\* a read returned the longest bytes a write can store
C3_Witness ==
    ret.op = "read" /\ ret.ok /\ ret.out = Ramp(FileMax) /\ FileMax > 0

\* C4 (as claimed): when create_directories has returned inside store() and
\* the write is about to be issued, every ancestor of the path is a
\* directory on the selected backend.
C4_AncestorsAreDirectories ==
    (call.op = "store" /\ halted = "run") =>
      \A k \in 1..Len(AncestorsOf(call.path)) :
        LET n == Components(AncestorsOf(call.path)[k])
        IN /\ WalkErr(fs[BackendOf[call.loc]], n) = ""
           /\ EntryAt(fs[BackendOf[call.loc]], n).kind = "dir"

\* C5: the create_dir calls of store() are issued for the ancestors of the
\* path from the shallowest to the deepest (all of them unless one panics),
\* they leave the entry at the path itself alone, and the write is issued
\* in a state where every one of them has returned.
C5_AncestorOrder ==
    [][/\ (/\ call'.op = "store" /\ call.op = "none"
           /\ StoreDirs(call'.loc, call'.path, call'.data)) =>
            /\ Len(call'.calls) <= Len(AncestorsOf(call'.path))
            /\ halted' = "run" =>
                 Len(call'.calls) = Len(AncestorsOf(call'.path))
            /\ \A k \in 1..Len(call'.calls) :
                 /\ call'.calls[k].fn = "create_dir"
                 /\ call'.calls[k].path = AncestorsOf(call'.path)[k]
            /\ EntryAt(fs'[BackendOf[call'.loc]], Components(call'.path))
                 = EntryAt(fs[BackendOf[call'.loc]], Components(call'.path))
       /\ StoreWrite =>
            /\ Len(call.calls) = Len(AncestorsOf(call.path))
            /\ \A k \in 1..Len(call.calls) :
                 call.calls[k].path = AncestorsOf(call.path)[k]]_vars

\* store() of "a/b/c" has created "a" and then "a/b" and is about to write
C5_Witness ==
    /\ call.op = "store" /\ call.path = PABC /\ halted = "run"
    /\ Len(call.calls) = 2
    /\ call.calls[1].path = PA /\ call.calls[1].err = ""
    /\ call.calls[2].path = PAB /\ call.calls[2].err = ""
    /\ EntryAt(fs[BackendOf[call.loc]], Components(PABC)).kind = "none"

\* store(loc, p, d) invoked again directly after a store(loc, p, d) that
\* left trees F: its create_dir calls all report "already existed" and leave
\* F as it is
RepeatIsNoop(F, l, p) ==
    LET e == store_directories(F, l, p) IN
    /\ ~e.panic
    /\ e.fs = F
    /\ Len(e.calls) = Len(AncestorsOf(p))
    /\ \A k \in 1..Len(e.calls) : e.calls[k].err = "EntryAlreadyExisted"

\* the write of that second store() succeeds
RepeatSucceeds(F, l, p, d) ==
    \A torn \in TornCases(d) :
      write(store_directories(F, l, p).fs, l, p, d, torn).ok

\* C6 (as claimed): store(loc, p, d) invoked twice with identical arguments
\* succeeds both times, every create_dir of the second invocation reporting
\* "already existed" and leaving the backend unchanged.
C6_StoreTwiceSucceeds ==
    [][StoreWrite =>
         /\ ret'.ok
         /\ RepeatIsNoop(fs', call.loc, call.path)
         /\ RepeatSucceeds(fs', call.loc, call.path, call.data)]_vars

\* C6 (amended): when store(loc, p, d) has returned, every create_dir of a
\* second invocation with identical arguments reports "already existed" and
\* the directory-creation step leaves the backend unchanged; when the first
\* invocation succeeded, the second succeeds too.
C6_StoreIdempotent ==
    [][StoreWrite =>
         /\ RepeatIsNoop(fs', call.loc, call.path)
         /\ ret'.ok => RepeatSucceeds(fs', call.loc, call.path, call.data)]_vars

\* a second store() of "a/b/c" with the bytes the file already holds is
\* about to write: both its create_dir calls reported "already existed"
C6_Witness ==
    /\ call.op = "store" /\ call.path = PABC /\ halted = "run"
    /\ Len(call.calls) = 2
    /\ \A k \in 1..2 : call.calls[k].err = "EntryAlreadyExisted"
    /\ EntryAt(fs[BackendOf[call.loc]], Components(PABC)) = FileEntry(call.data)

\* C7 (as claimed): delete(loc, p) on any existing entry returns true, and
\* a read(loc, p) directly after it fails with FilesystemReadFailure.
C7_DeleteAnyEntry ==
    [][ret'.op = "delete" =>
       \A l \in Loc, p \in Paths :
         (Delete(l, p) /\ Exists(fs[BackendOf[l]], p)) =>
           /\ ret'.ok
           /\ \A cap \in ReadCaps : ReadFails(fs', l, p, cap)]_vars

\* C7 (amended): delete(loc, p) on an existing file or empty directory
\* returns true; on a directory that is not empty it returns false and
\* leaves the backend unchanged; in both cases a read(loc, p) directly after
\* it fails with FilesystemReadFailure.
C7_DeleteSemantics ==
    [][ret'.op = "delete" =>
       \A l \in Loc, p \in Paths :
         (Delete(l, p) /\ Exists(fs[BackendOf[l]], p)) =>
           LET f == fs[BackendOf[l]]
               full == /\ EntryAt(f, Components(p)).kind = "dir"
                       /\ HasChild(f, Components(p))
           IN /\ ret'.ok = (~full)
              /\ full => fs' = fs
              /\ ~full => ~Exists(fs'[BackendOf[l]], p)
              /\ \A cap \in ReadCaps : ReadFails(fs', l, p, cap)]_vars

\* delete returned true and removed an emptied directory: "a/b" is gone
\* while its parent "a" is still a directory
C7_Witness ==
    /\ ret.op = "delete" /\ ret.ok
    /\ \E h \in Handles :
         /\ slot[h] # ""
         /\ fs[h][Components(PA)].kind = "dir"
         /\ fs[h][Components(PAB)].kind = "none"

\* C8: delete(loc, p) returns true exactly when the backend's remove
\* succeeded; on a path with no entry it returns false; a failed removal
\* yields false with no error value and never ends the process.
C8_DeleteCollapses ==
    [][ret'.op = "delete" =>
       \A l \in Loc, p \in Paths :
         Delete(l, p) =>
           /\ ret'.ok = (FsRemove(fs[BackendOf[l]], p).err = "")
           /\ ~Exists(fs[BackendOf[l]], p) => ~ret'.ok
           /\ ret'.err = "" /\ ret'.out = <<>>
           /\ halted' = "run"]_vars

\* delete returned false
C8_Witness ==
    ret.op = "delete" /\ ~ret.ok /\ ret.err = ""

\* the backends other than the one location l selects are unchanged
Frame(l) == \A h \in Handles \ {BackendOf[l]} : fs'[h] = fs[h]

\* every backend call of the log went to the backend location l selects
OnlyTo(calls, l) == \A k \in 1..Len(calls) : calls[k].h = BackendOf[l]

\* whatever operation is begun or continued in this state, with whatever
\* arguments, its backend calls go to the backend its location selects
CallsStayOnBackend ==
    /\ \A l \in Loc :
         Ready(l) =>
           /\ \A p \in Paths, cap \in ReadCaps :
                OnlyTo(read(fs, l, p, cap).calls, l)
           /\ \A p \in Paths, d \in Contents : \A torn \in TornCases(d) :
                OnlyTo(write(fs, l, p, d, torn).calls, l)
           /\ \A p \in Paths : OnlyTo(store_directories(fs, l, p).calls, l)
           /\ \A p \in Paths : OnlyTo(delete(fs, l, p).calls, l)
    /\ (call.op = "store" /\ halted = "run") =>
         /\ OnlyTo(call.calls, call.loc)
         /\ \A torn \in TornCases(call.data) :
              OnlyTo(write(fs, call.loc, call.path, call.data, torn).calls,
                     call.loc)

\* the step is a read, a write, a delete or one of the two steps of a
\* store() on location l
ActsOn(l) ==
    \/ ret'.op = "read" /\ \E p \in Paths, cap \in ReadCaps : Read(l, p, cap)
    \/ ret'.op = "write" /\ \E p \in Paths, d \in Contents : Write(l, p, d)
    \/ ret'.op = "delete" /\ \E p \in Paths : Delete(l, p)
    \/ /\ call'.op = "store" /\ call.op = "none" /\ call'.loc = l
       /\ StoreDirs(l, call'.path, call'.data)
    \/ call.op = "store" /\ call.loc = l /\ StoreWrite

\* C9: read, write, store and delete call only the backend their location
\* tag selects (the create_dir calls of store and its write go to the
\* same one), and every step of one of them leaves the other two backends
\* unchanged.
C9_BackendIsolation ==
    /\ []CallsStayOnBackend
    /\ [][\A l \in Loc : Frame(l) \/ ~ActsOn(l)]_vars

\* the three backends hold three different trees after a store
C9_Witness ==
    /\ ret.op = "store" /\ ret.ok
    /\ fs["ifs"][Components(PA)].kind = "file"
    /\ fs["efs"][Components(PA)].kind = "dir"
    /\ fs["vfs"] = EmptyFs /\ slot["vfs"] # ""

\* C10: SerializedKey::try_from((kind, bytes)) fails, with InternalError,
\* exactly when bytes is longer than MAX_SERIALIZED_KEY_LENGTH; otherwise
\* the key has the given kind and a value equal to bytes byte for byte.
C10_KeyEncodingBound ==
    key.called =>
      /\ (~key.res.ok) = (Len(key.bytes) > MAX_SERIALIZED_KEY_LENGTH)
      /\ ~key.res.ok => key.res.err = "InternalError"
      /\ key.res.ok =>
           /\ key.res.kind = key.kind
           /\ Len(key.res.value) = Len(key.bytes)
           /\ \A i \in 1..Len(key.bytes) : key.res.value[i] = key.bytes[i]

\* a key of exactly the capacity was encoded
C10_Witness ==
    /\ key.called /\ key.res.ok
    /\ Len(key.bytes) = MAX_SERIALIZED_KEY_LENGTH
    /\ key.res.value = key.bytes /\ key.res.kind = "P256"

\* C11 (as claimed): a call of mount() made after an earlier call has
\* returned is rejected with an error or ends the process, and leaves every
\* recorded slot as it was recorded.
C11_MountOnce ==
    [][\A m \in MountCases :
         (mountRes # "none" /\ Mount(m)) =>
           /\ halted' = "panic" \/ mountRes' = "Err"
           /\ \A h \in Handles : slot[h] # "" => slot'[h] = slot[h]]_vars

\* the positions of calls at which fn is called
CallsOf(calls, fn) == {i \in 1..Len(calls) : calls[i].fn = fn}

\* C12: a call of mount() with format set formats all three media before it
\* mounts any of them; when a Filesystem::format fails the process ends in
\* a panic: no error is returned, no medium is mounted and no slot is
\* recorded by the call.
C12_FormatFirst ==
    [][\A m \in MountCases :
         (m.format /\ Mount(m)) =>
           LET calls == mount(fs, slot, Supplied, m).calls IN
           /\ \A i \in CallsOf(calls, "format"), j \in CallsOf(calls, "mount") :
                i < j
           /\ IF m.fmtBad < 4
              THEN /\ halted' = "panic"
                   /\ mountRes' = mountRes
                   /\ slot' = slot
                   /\ CallsOf(calls, "mount") = {}
                   /\ CallsOf(calls, "record") = {}
                   /\ calls[Len(calls)] = MountCall("format",
                                                    MountOrder[m.fmtBad], "Err")
              ELSE /\ halted' = "run"
                   /\ \A k \in 1..3 :
                        calls[k] = MountCall("format", MountOrder[k], "")
                   /\ CallsOf(calls, "mount") # {}]_vars

\* the first call of mount() ended in the panic of a failed format: no
\* result, no slot recorded
C12_Witness ==
    /\ halted = "panic" /\ HasCapability
    /\ mountRes = "none"
    /\ slot = [h \in Handles |-> ""]

\* operation e made one backend call; it succeeds exactly when that call
\* did, fails with error kind and with nothing else, and does not panic
MapsFailureTo(e, kind) ==
    /\ Len(e.calls) = 1
    /\ e.ok = (e.calls[1].err = "")
    /\ e.err = (IF e.calls[1].err = "" THEN "" ELSE kind)
    /\ ~e.panic

\* whatever read or write is called in this state, a failure of its
\* backend call is returned as FilesystemReadFailure (read) or
\* FilesystemWriteFailure (write), a success as success, and what the last
\* read or write returned is of that form
ErrorsAreMapped ==
    /\ \A l \in Loc :
         Ready(l) =>
           /\ \A p \in Paths, cap \in ReadCaps :
                MapsFailureTo(read(fs, l, p, cap), "FilesystemReadFailure")
           /\ \A p \in Paths, d \in Contents : \A torn \in TornCases(d) :
                MapsFailureTo(write(fs, l, p, d, torn),
                              "FilesystemWriteFailure")
    /\ ret.op = "read" =>
         ret.err = (IF ret.ok THEN "" ELSE "FilesystemReadFailure")
    /\ ret.op = "write" =>
         ret.err = (IF ret.ok THEN "" ELSE "FilesystemWriteFailure")

\* C13: every backend failure of read is returned as FilesystemReadFailure
\* and every backend failure of write as FilesystemWriteFailure; no read or
\* write returns another error kind, and none ends the process.
C13_ErrorMapping ==
    /\ []ErrorsAreMapped
    /\ [][(ret'.op \in {"read", "write"} /\ ret' # ret) => halted' = "run"]_vars

\* a write of more bytes than the backend takes failed with
\* FilesystemWriteFailure and left a torn, empty file
C13_Witness ==
    /\ ret.op = "write" /\ ~ret.ok /\ ret.err = "FilesystemWriteFailure"
    /\ \E h \in Handles : fs[h][Components(PAB)] = FileEntry(<<>>)

\* the results of create_dir that create_directories takes as success
DirOk == {"", "EntryAlreadyExisted"}

\* while a store() is past create_directories: every create_dir but the
\* last was taken as success, the last one failed otherwise exactly when
\* the process has panicked, and without a panic the scan went on to the
\* end of the path; what the last store() returned is success or
\* FilesystemWriteFailure
DirErrorsAreFatal ==
    /\ call.op = "store" =>
         /\ \A k \in 1..(Len(call.calls) - 1) : call.calls[k].err \in DirOk
         /\ (halted = "panic") =
              (/\ call.calls # <<>>
               /\ call.calls[Len(call.calls)].err \notin DirOk)
         /\ halted = "run" =>
              Len(call.calls) = Len(AncestorsOf(call.path))
    /\ ret.op = "store" =>
         ret.err = (IF ret.ok THEN "" ELSE "FilesystemWriteFailure")

\* C14: in store(), a create_dir result of "already existed" counts as
\* success and the scan continues, any other create_dir error ends the
\* process; store() returns only from its write step, with success or with
\* FilesystemWriteFailure exactly as that write succeeded or failed.
C14_DirErrorsAbort ==
    /\ []DirErrorsAreFatal
    /\ [][(ret'.op = "store" /\ ret' # ret) =>
            /\ StoreWrite
            /\ \E torn \in TornCases(call.data) :
                 LET e == write(fs, call.loc, call.path, call.data, torn) IN
                 fs' = e.fs /\ ret'.ok = (e.calls[1].err = "")]_vars

\* store() of "a/b/c" over a regular file "a": create_dir("a") reported
\* "already existed", create_dir("a/b") failed otherwise and the process
\* has panicked
C14_Witness ==
    /\ halted = "panic" /\ call.op = "store" /\ call.path = PABC
    /\ Len(call.calls) = 2
    /\ call.calls[1].err = "EntryAlreadyExisted"
    /\ call.calls[2].err \notin DirOk

\* claim() has returned the capability and mount() has returned Ok on
\* three media that hold nothing
FreshlyMounted ==
    /\ MainIdle /\ HasCapability
    /\ mountRes = "Ok"
    /\ fs = [h \in Handles |-> EmptyFs]

\* the paths with several ancestors
DeepPaths == {p \in Paths : Len(AncestorsOf(p)) >= 2}

\* from trees F: store(Internal, p, d) succeeds, then read::<cap> returns d,
\* then delete returns true, then read fails with FilesystemReadFailure
EndToEnd(F, p, d, cap, torn) ==
    LET dirs == store_directories(F, "Internal", p)
        st == write(dirs.fs, "Internal", p, d, torn)
        rd == read(st.fs, "Internal", p, cap)
        del == delete(rd.fs, "Internal", p)
        again == read(del.fs, "Internal", p, cap)
    IN /\ ~dirs.panic /\ dirs.ok /\ st.ok
       /\ rd.ok /\ rd.out = d
       /\ del.ok
       /\ ~again.ok /\ again.err = "FilesystemReadFailure"

\* C15 (as claimed): after claim() and mount() of three fresh media, for
\* every path with several missing ancestors and every d, store succeeds,
\* read returns d, delete returns true and the next read fails with
\* FilesystemReadFailure.
C15_EndToEndAnyData ==
    FreshlyMounted =>
      \A p \in DeepPaths, d \in Contents, cap \in ReadCaps :
        \A torn \in TornCases(d) : EndToEnd(fs, p, d, cap, torn)

\* C15 (amended): the same, for d within the backend's size limit and a
\* read capacity N >= d.len().
C15_EndToEnd ==
    FreshlyMounted =>
      \A p \in DeepPaths, d \in Contents, cap \in ReadCaps :
        (Len(d) <= FileMax /\ Len(d) <= cap) =>
          \A torn \in TornCases(d) : EndToEnd(fs, p, d, cap, torn)

\* the end of the scenario on "a/b/c": the read after the delete has failed,
\* the directories "a" and "a/b" made by store() are there, the file is not
C15_Witness ==
    /\ mountRes = "Ok"
    /\ ret.op = "read" /\ ~ret.ok /\ ret.err = "FilesystemReadFailure"
    /\ fs["ifs"][Components(PA)].kind = "dir"
    /\ fs["ifs"][Components(PAB)].kind = "dir"
    /\ fs["ifs"][Components(PABC)].kind = "none"
    /\ fs["efs"] = EmptyFs /\ fs["vfs"] = EmptyFs

AccessorUnguarded ==
    /\ \A l \in Loc :
         (MainIdle /\ HasCapability /\ ~Recorded(l)) =>
           ENABLED AccessUnrecorded(l)
    /\ mountRes = "Ok" => \A l \in Loc : Recorded(l)

\* C17: the accessors are valid only after mount(): whenever the capability
\* is held and a slot is unrecorded, nothing keeps a path operation from
\* reaching the accessor of that slot, which then refers to an unrecorded
\* slot (undefined behaviour); an accessor of a recorded slot never does.
C17_AccessorNeedsMount ==
    /\ []AccessorUnguarded
    /\ [][(halted' = "ub" /\ halted = "run") =>
            \E l \in Loc : ~Recorded(l) /\ AccessUnrecorded(l)]_vars

\* the capability is held, mount() was never called, and an accessor was
\* reached
C17_Witness ==
    /\ HasCapability /\ CLAIMED
    /\ mountRes = "none" /\ slot = [h \in Handles |-> ""]
    /\ halted = "ub"

\* the backends whose slot the calls of one mount() write, in call order
RecordedBy(calls) ==
    LET at == CallsOf(calls, "record")
        nth == [k \in 1..Cardinality(at) |->
                  CHOOSE i \in at : Cardinality({j \in at : j < i}) = k - 1]
    IN [k \in 1..Cardinality(at) |-> calls[nth[k]].h]

\* Volatile recorded implies External recorded implies Internal recorded
RecordedInOrder ==
    /\ slot["vfs"] # "" => slot["efs"] # ""
    /\ slot["efs"] # "" => slot["ifs"] # ""

\* C18: mount() writes the slots in the order Internal, External, Volatile,
\* each right after its Filesystem::mount, so in every reachable state
\* Volatile recorded implies External recorded implies Internal recorded;
\* when the Filesystem::mount of backend k fails in a first call, mount()
\* returns the error with exactly the slots of the backends before k
\* recorded.
C18_MountOrderNoRollback ==
    /\ []RecordedInOrder
    /\ [][\A m \in MountCases :
            (Mount(m) /\ ~mount(fs, slot, Supplied, m).panic) =>
              LET calls == mount(fs, slot, Supplied, m).calls
                  k == m.mntBad
              IN /\ RecordedBy(calls) = SubSeq(MountOrder, 1, k - 1)
                 /\ \A i \in CallsOf(calls, "record") :
                      calls[i - 1] = MountCall("mount", calls[i].h, "")
                 /\ k < 4 => mountRes' = "Err"
                 /\ (k < 4 /\ mountRes = "none") =>
                      \A j \in 1..3 : (slot'[MountOrder[j]] # "") = (j < k)]_vars

\* a first mount() failed at the volatile backend: the internal and the
\* external slot are recorded, the volatile one is not
C18_Witness ==
    /\ mountRes = "Err" /\ halted = "run"
    /\ slot = [ifs |-> "ifs_storage", efs |-> "efs_storage", vfs |-> ""]

\* paths with an empty name: a doubled, a leading and a trailing '/'
OddPaths == {<<"a", "/", "/", "b">>, <<"/", "a">>, <<"a", "/">>}

\* the positions of the '/' bytes of path
Slashes(path) == {i \in 1..Len(path) : path[i] = "/"}

\* whatever path store() is called with in this state, create_directories
\* makes one create_dir call per '/' of the path, the k-th on the bytes
\* before the k-th '/', none on the path itself, all of them unless it
\* panics; on a path without '/' it makes none and changes nothing
OneCallPerSlash ==
    \A l \in Loc :
      Ready(l) =>
        \A p \in Paths \cup OddPaths :
          LET e == store_directories(fs, l, p) IN
          /\ Len(e.calls) <= Cardinality(Slashes(p))
          /\ ~e.panic => Len(e.calls) = Cardinality(Slashes(p))
          /\ \A k \in 1..Len(e.calls) :
               /\ e.calls[k].fn = "create_dir"
               /\ e.calls[k].path # p
               /\ Len(e.calls[k].path) + 1 \in Slashes(p)
               /\ Cardinality({i \in Slashes(p) :
                                 i <= Len(e.calls[k].path)}) = k - 1
               /\ e.calls[k].path = SubSeq(p, 1, Len(e.calls[k].path))
          /\ Slashes(p) = {} => (e.calls = <<>> /\ e.fs = fs /\ e.ok)

\* C19: create_directories issues exactly one create_dir call per '/' of
\* the path, each on the bytes strictly before that '/', and never one on
\* the full path; for a path without '/' it issues none, and store() on
\* such a path has the effect and the result of write() with the same
\* arguments.
C19_OneCallPerSlash ==
    /\ []OneCallPerSlash
    /\ [][/\ (/\ call'.op = "store" /\ call.op = "none"
              /\ Slashes(call'.path) = {}
              /\ StoreDirs(call'.loc, call'.path, call'.data)) =>
                fs' = fs /\ call'.calls = <<>> /\ halted' = "run"
          /\ (StoreWrite /\ Slashes(call.path) = {}) =>
               \E torn \in TornCases(call.data) :
                 LET w == write(fs, call.loc, call.path, call.data, torn) IN
                 /\ fs' = w.fs
                 /\ ret'.ok = w.ok /\ ret'.err = w.err
                 /\ ret'.out = w.out]_vars

\* store() on "a" returned success having made no create_dir call: the
\* backend holds the file and nothing else
C19_Witness ==
    /\ ret.op = "store" /\ ret.ok
    /\ \E h \in Handles :
         /\ slot[h] # ""
         /\ fs[h] = [EmptyFs EXCEPT ![Components(PA)] = FileEntry(Ramp(FileMax))]

\* C20: store() is not transactional: its create_directories step leaves
\* every existing entry as it is and adds nothing but directories, and
\* when its write step fails with FilesystemWriteFailure the directories
\* that call created are still on the backend.
C20_StoreNotTransactional ==
    [][/\ (/\ call'.op = "store" /\ call.op = "none"
           /\ StoreDirs(call'.loc, call'.path, call'.data)) =>
            \A n \in Nodes :
              LET old == fs[BackendOf[call'.loc]][n]
                  new == fs'[BackendOf[call'.loc]][n]
              IN /\ old.kind # "none" => new = old
                 /\ old.kind = "none" => new \in {NoEntry, DirEntry}
       /\ (StoreWrite /\ ~ret'.ok) =>
            /\ ret'.err = "FilesystemWriteFailure"
            /\ \A k \in 1..Len(call.calls) :
                 call.calls[k].err = "" =>
                   fs'[BackendOf[call.loc]][Components(call.calls[k].path)]
                     = DirEntry
            /\ \A n \in Nodes :
                 fs[BackendOf[call.loc]][n] = DirEntry =>
                   fs'[BackendOf[call.loc]][n] = DirEntry]_vars

\* store() of "a/b/c" failed in its write; "a" and "a/b" are directories on
\* that backend, which holds nothing else but what the failed write left
C20_Witness ==
    /\ ret.op = "store" /\ ~ret.ok /\ ret.err = "FilesystemWriteFailure"
    /\ \E h \in Handles :
         /\ slot[h] # ""
         /\ fs[h][Components(PA)] = DirEntry
         /\ fs[h][Components(PAB)] = DirEntry
         /\ fs[h][Components(PABC)] \in {NoEntry, FileEntry(<<>>)}
         /\ \A g \in Handles \ {h} : fs[g] = EmptyFs

\* ------------------------------------------------- C21: read, failed delete

\* the step is a read(), of any location, path and capacity
IsRead ==
    /\ ret'.op = "read"
    /\ \E l \in Loc, p \in Paths, cap \in ReadCaps : Read(l, p, cap)

\* the step is a delete(), of any location and path
IsDelete ==
    /\ ret'.op = "delete"
    /\ \E l \in Loc, p \in Paths : Delete(l, p)

\* the claimed flag and the recorded handles are what they were
LifecycleKept == CLAIMED' = CLAIMED /\ slot' = slot /\ mountRes' = mountRes

\* C21: read(loc, p), whether it returns Ok or FilesystemReadFailure, and
\* delete(loc, p) when it returns false leave the contents of all three
\* backends as they were, and neither read nor delete (whatever it returns)
\* changes the claimed flag or the recorded handles.
C21_ReadAndFailedDeleteFrame ==
    [][/\ IsRead => fs' = fs /\ LifecycleKept
       /\ IsDelete => LifecycleKept /\ (~ret'.ok => fs' = fs)]_vars

\* delete() has just returned false on a store that holds a file below a
\* directory on one backend and a file on another
C21_Witness ==
    /\ ret.op = "delete" /\ ~ret.ok
    /\ CLAIMED /\ \A h \in Handles : slot[h] # ""
    /\ \E h \in Handles, g \in Handles :
         /\ g # h
         /\ fs[h][Components(PA)] = DirEntry
         /\ fs[h][Components(PAB)].kind = "file"
         /\ fs[g][Components(PA)].kind = "file"

====
